---- MODULE Spec2Model ----
(***************************************************************************)
(* Location resolution of ToolDetectionFrontend: the reverse geocoder      *)
(* (services/locationService.js), the position acquisition service         *)
(* (getCurrentLocationWithName) and the useGeolocation hook as driven by   *)
(* HomePage; the forward geocoder (searchLocations) and the LocationSearch  *)
(* component.                                                              *)
(*                                                                         *)
(* Numbers: a latitude or longitude is a JavaScript value, modelled as a   *)
(* record [t, nan, v] where t is the result of typeof, nan says the number *)
(* is NaN and v is the number in micro-degrees (1e-6 degree).  A place     *)
(* confidence ("accuracy" of a place) is in hundredths.  A position        *)
(* accuracy is in metres.  A distance is in metres, a relevance score and  *)
(* an importance are in hundredths.                                        *)
(***************************************************************************)
EXTENDS Integers, Sequences, FiniteSets, TLC

VARIABLES
    location,        \* useGeolocation state: location
    locationName,    \* useGeolocation state: locationName
    loading,         \* useGeolocation state: loading
    error,           \* useGeolocation state: error
    retryCount,      \* useGeolocation state: retryCount
    showManualInput, \* HomePage state: showManualInput
    mounted,         \* the mount effect of useGeolocation has run
    geoSupported,    \* navigator.geolocation is present
    positions,       \* what the platform answers a position request with
    responses,       \* what the provider answers a reverse-geocoding request with
    calls,           \* the getCurrentLocation / setManualLocation invocations so far
    last,            \* history: the invocation that completed most recently
    query,           \* LocationSearch state: query
    suggestions,     \* LocationSearch state: suggestions
    searchLoading,   \* LocationSearch state: loading
    showSuggestions, \* LocationSearch state: showSuggestions
    currentLocation, \* LocationSearch prop: currentLocation, the bias of a search
    sortEngine,      \* the implementation of Array.prototype.sort of the platform
    timer,           \* the pending 300 ms timers of the debounce effect of
                     \* LocationSearch, each as the query its callback captured
    searches,        \* the performSearch invocations so far
    lastSearch,      \* history: the searchLocations call that completed most recently
    measured         \* history: the arguments and results of calculateDistance

hookVars == <<location, locationName, loading, error, retryCount, showManualInput,
              mounted, geoSupported, positions, responses, calls, last>>

searchVars == <<query, suggestions, searchLoading, showSuggestions, currentLocation,
                sortEngine, timer, searches, lastSearch, measured>>

vars == <<hookVars, searchVars>>

env == <<showManualInput, mounted, geoSupported, positions, responses>>

-----------------------------------------------------------------------------
(* Bounds of the model *)

\* the number of getCurrentLocation / setManualLocation invocations explored
MaxCalls == 2

\* the number of primary position requests of one invocation beyond which
\* the retry timer of getCurrentLocation is not followed any further
MaxRequests == 6

-----------------------------------------------------------------------------
(* JavaScript values *)

Num(v) == [t |-> "number", nan |-> FALSE, v |-> v]
NaN == [t |-> "number", nan |-> TRUE, v |-> 0]
Undefined == [t |-> "undefined", nan |-> FALSE, v |-> 0]

Null == [k |-> "null"]

Abs(n) == IF n < 0 THEN 0 - n ELSE n

RECURSIVE Pow10(_)
Pow10(d) == IF d = 0 THEN 1 ELSE 10 * Pow10(d - 1)

RECURSIVE Digits(_, _)
\* the last `width` decimal digits of n, zero padded
Digits(n, width) ==
    IF width = 0 THEN "" ELSE Digits(n \div 10, width - 1) \o ToString(n % 10)

\* Number.prototype.toFixed(d) on a value held in micro-degrees: rounds the
\* magnitude to d decimals (half up), keeps the sign of a negative number,
\* prints NaN as "NaN"; on a value that is not a number the member does not
\* exist and the call throws a TypeError.
ToFixed(x, d) ==
    IF x.t # "number" THEN [threw |-> TRUE, s |-> ""]
    ELSE IF x.nan THEN [threw |-> FALSE, s |-> "NaN"]
    ELSE LET unit == Pow10(6 - d)
             n == (Abs(x.v) + (unit \div 2)) \div unit
             sign == IF x.v < 0 THEN "-" ELSE ""
         IN [threw |-> FALSE,
             s |-> sign \o ToString(n \div Pow10(d)) \o "."
                        \o Digits(n % Pow10(d), d)]

\* String.prototype.includes
Includes(s, sub) ==
    \E i \in 1..(Len(s) - Len(sub) + 1) : SubSeq(s, i, i + Len(sub) - 1) = sub

-----------------------------------------------------------------------------
(* isValidCoordinates *)

isValidCoordinates(latitude, longitude) ==
    /\ latitude.t = "number"
    /\ longitude.t = "number"
    /\ ~latitude.nan
    /\ ~longitude.nan
    /\ latitude.v >= -90000000
    /\ latitude.v <= 90000000
    /\ longitude.v >= -180000000
    /\ longitude.v <= 180000000

-----------------------------------------------------------------------------
(* The reverse-geocoding provider's answer to one request.  An absent       *)
(* string field of the payload is "" and an absent importance is 0: both   *)
(* are falsy in the code's tests, like the absent field.                   *)

NoAddress ==
    [house_number |-> "", road |-> "", suburb |-> "", neighbourhood |-> "",
     city |-> "", town |-> "", village |-> "", state |-> "", country |-> ""]

NetFail == [kind |-> "netfail", status |-> 0, json |-> "invalid", error |-> "",
            display_name |-> "", hasAddress |-> FALSE, address |-> NoAddress,
            importance |-> 0]

Http(status, json) ==
    [NetFail EXCEPT !.kind = "http", !.status = status, !.json = json]

ErrorPayload == [Http(200, "object") EXCEPT !.error = "Unable to geocode"]

FullPayload ==
    [Http(200, "object") EXCEPT
        !.display_name = "10, Main St, Springfield, Illinois, USA",
        !.hasAddress = TRUE,
        !.address = [NoAddress EXCEPT !.house_number = "10", !.road = "Main St",
                                      !.city = "Springfield", !.state = "Illinois",
                                      !.country = "USA"],
        !.importance = 75]

NameOnlyPayload == [Http(200, "object") EXCEPT !.display_name = "Atlantic Ocean"]

\* the provider outcomes explored: network failure, 429, 403, another
\* non-2xx status, a body that is no JSON, JSON null, a falsy JSON value,
\* the empty object, an error payload, and two payloads with data
Responses ==
    {NetFail, Http(429, "invalid"), Http(403, "invalid"), Http(500, "invalid"),
     Http(200, "invalid"), Http(200, "null"), Http(200, "falsy"),
     Http(200, "object"), ErrorPayload, FullPayload, NameOnlyPayload}

ResponseOk(resp) == resp.status >= 200 /\ resp.status <= 299

-----------------------------------------------------------------------------
(* getLocationName *)

RECURSIVE Join(_)
\* Array.prototype.join(', ')
Join(parts) ==
    IF Len(parts) = 0 THEN ""
    ELSE IF Len(parts) = 1 THEN parts[1]
    ELSE parts[1] \o ", " \o Join(Tail(parts))

Or(a, b) == IF a # "" THEN a ELSE b

\* the readable name with the neighbourhood preferred to the suburb
ReadableNameNeighbourhoodFirst(address, name) ==
    LET p1 == IF address.house_number # "" /\ address.road # ""
              THEN <<address.house_number \o " " \o address.road>>
              ELSE IF address.road # "" THEN <<address.road>> ELSE <<>>
        p2 == IF address.neighbourhood # "" THEN <<address.neighbourhood>>
              ELSE IF address.suburb # "" THEN <<address.suburb>>
              ELSE <<>>
        p3 == IF Or(address.city, Or(address.town, address.village)) # ""
              THEN <<Or(address.city, Or(address.town, address.village))>>
              ELSE <<>>
        p4 == IF address.state # "" THEN <<address.state>> ELSE <<>>
        p5 == IF address.country # "" THEN <<address.country>> ELSE <<>>
        locationParts == p1 \o p2 \o p3 \o p4 \o p5
    IN IF Len(locationParts) > 0 THEN Join(locationParts) ELSE name

\* lines 99-128: the readable name built from the address fields
ReadableName(address, name) ==
    LET p1 == IF address.house_number # "" /\ address.road # ""
              THEN <<address.house_number \o " " \o address.road>>
              ELSE IF address.road # "" THEN <<address.road>> ELSE <<>>
        p2 == IF address.suburb # "" THEN <<address.suburb>>
              ELSE IF address.neighbourhood # "" THEN <<address.neighbourhood>>
              ELSE <<>>
        p3 == IF Or(address.city, Or(address.town, address.village)) # ""
              THEN <<Or(address.city, Or(address.town, address.village))>>
              ELSE <<>>
        p4 == IF address.state # "" THEN <<address.state>> ELSE <<>>
        p5 == IF address.country # "" THEN <<address.country>> ELSE <<>>
        locationParts == p1 \o p2 \o p3 \o p4 \o p5
    IN IF Len(locationParts) > 0 THEN Join(locationParts) ELSE name

Place(name, fullAddress, city, state, country, latitude, longitude, accuracy, err) ==
    [k |-> "place", name |-> name, fullAddress |-> fullAddress, city |-> city,
     state |-> state, country |-> country,
     coordinates |-> [latitude |-> latitude, longitude |-> longitude],
     accuracy |-> accuracy, error |-> err]

Returned(place) == [threw |-> FALSE, message |-> "", place |-> place]
Thrown(message) == [threw |-> TRUE, message |-> message, place |-> Null]

\* the messages without the branch for 403
HttpErrorMessageNo403(status) ==
    IF status = 429 THEN "Rate limit exceeded. Please wait a moment and try again."
    ELSE "HTTP error! status: " \o ToString(status)

\* the message of the error thrown for a response that is not ok
HttpErrorMessage(status) ==
    IF status = 429 THEN "Rate limit exceeded. Please wait a moment and try again."
    ELSE IF status = 403 THEN "Access forbidden. Please check your internet connection."
    ELSE "HTTP error! status: " \o ToString(status)

\* lines 54-141: the try block, given the provider's answer to the request
GetLocationNameTry(latitude, longitude, resp) ==
    IF resp.kind = "netfail" THEN Thrown("Failed to fetch")
    ELSE IF ~ResponseOk(resp) THEN Thrown(HttpErrorMessage(resp.status))
    ELSE IF resp.json = "invalid" THEN Thrown("Unexpected token < in JSON at position 0")
    ELSE IF resp.json = "null"
         THEN Thrown("Cannot read properties of null (reading 'error')")
    ELSE IF resp.json = "falsy" THEN Thrown("Location not found")
    ELSE IF resp.error # "" THEN Thrown(resp.error)
    ELSE IF resp.display_name = "" /\ ~resp.hasAddress
         THEN Thrown("No location data received")
    ELSE LET address == IF resp.hasAddress THEN resp.address ELSE NoAddress
             name == Or(resp.display_name, "Unknown Location")
         IN Returned(Place(ReadableName(address, name), name,
                           Or(address.city, Or(address.town,
                              Or(address.village, "Unknown City"))),
                           Or(address.state, "Unknown State"),
                           Or(address.country, "Unknown Country"),
                           latitude, longitude,
                           IF resp.importance # 0 THEN resp.importance ELSE 50,
                           ""))

\* the confidence of a degraded place, 0.1, in hundredths
DegradedAccuracy == 10

\* the catch block throwing the error on instead of degrading
GetLocationNameCatchRethrows(latitude, longitude, message) == Thrown(message)

\* lines 143-160: the catch block; toFixed throws on a value that is no number
GetLocationNameCatch(latitude, longitude, message) ==
    LET lat4 == ToFixed(latitude, 4)
        lon4 == ToFixed(longitude, 4)
        lat6 == ToFixed(latitude, 6)
        lon6 == ToFixed(longitude, 6)
    IN IF lat4.threw \/ lon4.threw
       THEN Thrown("latitude.toFixed is not a function")
       ELSE Returned(Place(lat4.s \o ", " \o lon4.s,
                           "Coordinates: " \o lat6.s \o ", " \o lon6.s,
                           "Unknown City", "Unknown State", "Unknown Country",
                           latitude, longitude, DegradedAccuracy, message))

\* getLocationName(latitude, longitude) when the provider answers resp
GetLocationName(latitude, longitude, resp) ==
    LET tried == GetLocationNameTry(latitude, longitude, resp)
    IN IF tried.threw
       THEN GetLocationNameCatch(latitude, longitude, tried.message)
       ELSE tried

-----------------------------------------------------------------------------
(* Platform positions *)

Reading(latitude, longitude, accuracy) ==
    [latitude |-> latitude, longitude |-> longitude, accuracy |-> accuracy]

NoReading == Reading(Undefined, Undefined, 0)

LatA == Num(40712776)
LonA == Num(-74005974)
LatB == Num(40712345)
LonB == Num(-74006049)

\* the position fixes explored: good, threshold and poor accuracy at two
\* places, and fixes whose coordinates fail the validity check
Readings ==
    {Reading(LatA, LonA, 100), Reading(LatA, LonA, 150), Reading(LatB, LonB, 150),
     Reading(LatB, LonB, 200), Reading(Num(91000000), LonA, 150)}

PositionError(code) == [code |-> code, coords |-> NoReading]
NoPosition == PositionError("NONE")
PositionOk(r) == [code |-> "OK", coords |-> r]

ErrorCodes == {"PERMISSION_DENIED", "POSITION_UNAVAILABLE", "TIMEOUT", "UNKNOWN"}

\* what the platform can call back with for one getCurrentPosition request
PositionOutcomes ==
    {PositionOk(r) : r \in Readings} \cup {PositionError(code) : code \in ErrorCodes}

\* the supplementary request's error callback does not read the error code
SupplementaryOutcomes ==
    {p \in positions : p.code = "OK"} \cup {PositionError("TIMEOUT")}

\* a platform that answers with a good fix, a poor fix or a denial
GeoPositions ==
    {PositionOk(Reading(LatA, LonA, 100)), PositionOk(Reading(LatB, LonB, 150)),
     PositionError("PERMISSION_DENIED")}

\* a platform with a fix for each path of the success callback (a good one,
\* a poor one, a poorer one, an invalid one), a timeout and a denial
LivePositions ==
    {PositionOk(Reading(LatA, LonA, 100)), PositionOk(Reading(LatB, LonB, 150)),
     PositionOk(Reading(LatB, LonB, 200)), PositionOk(Reading(Num(91000000), LonA, 150)),
     PositionError("TIMEOUT"), PositionError("PERMISSION_DENIED")}

\* a provider that answers with data or with a server error
PlainResponses == {FullPayload, Http(500, "invalid")}

\* the coordinates handed to setManualLocation
ManualCoordinates ==
    {<<LatA, LonA>>, <<Num(40712345), Num(181000000)>>, <<NaN, NaN>>,
     <<Undefined, Undefined>>, <<LatA, Undefined>>}

-----------------------------------------------------------------------------
(* Values of the hook state *)

Err(message) == [k |-> "error", message |-> message]

Metres(m) == [null |-> FALSE, m |-> m]
NullAccuracy == [null |-> TRUE, m |-> 0]

Location(latitude, longitude, accuracy) ==
    [k |-> "location", latitude |-> latitude, longitude |-> longitude,
     accuracy |-> accuracy]

-----------------------------------------------------------------------------
(* One invocation of getCurrentLocation (kind "gps") or setManualLocation   *)
(* (kind "manual"), and where it stands.                                    *)
(*   pc: posWait        a primary getCurrentPosition request is out         *)
(*       retryTimer     the 2 s timer of the TIMEOUT case is running        *)
(*       supWait        the supplementary getCurrentPosition request is out *)
(*       geoDelay       getLocationName waits its 100 ms                    *)
(*       geoWait        the provider request is out                         *)
(*       geoRetryTimer  the backoff timer of getLocationNameWithRetry runs  *)
(*       hookRetryTimer the retry timer of getCurrentLocation is running    *)
(*       abandoned      the promise will never settle                       *)
(*       done           the invocation has completed                        *)
(* npos, nsup, ngeo count the primary position requests, the supplementary  *)
(* position requests and the provider requests issued; outcomes lists the   *)
(* codes the primary requests called back with; orig is the fix of the      *)
(* primary request that succeeded; sup is what the supplementary request    *)
(* called back with, kept until the provider request is issued.             *)

NewCall ==
    [kind |-> "gps", pc |-> "posWait", isRetry |-> FALSE, closureRetry |-> 0,
     svcRetry |-> 0, geoRetry |-> 0, fallback |-> FALSE, firstError |-> "",
     orig |-> NoReading, sup |-> NoPosition,
     lat |-> Undefined, lon |-> Undefined, acc |-> 0,
     npos |-> 0, nsup |-> 0, ngeo |-> 0, outcomes |-> <<>>]

Retired == [NewCall EXCEPT !.pc = "done"]

Completed(i, c, status, resp, out, message) ==
    [id |-> i, call |-> c, status |-> status, resp |-> resp, out |-> out,
     message |-> message]

NoneCompleted == Completed(0, NewCall, "none", NetFail, Thrown(""), "")

InFlight == {i \in 1..Len(calls) : calls[i].pc \notin {"done", "abandoned"}}

Acquiring == {i \in InFlight : calls[i].kind = "gps"}

-----------------------------------------------------------------------------
(* useGeolocation: the continuations of getCurrentLocation and              *)
(* setManualLocation.  pre is the hook state the continuation starts from:  *)
(* the current one, or the one the synchronous part of the call has set.    *)

HookState == [loading |-> loading, error |-> error, retryCount |-> retryCount]

Put(i, c) == IF i > Len(calls) THEN Append(calls, c) ELSE [calls EXCEPT ![i] = c]

\* the call goes on waiting: nothing of the hook state changes beyond pre
Continue(i, c, pre) ==
    /\ calls' = Put(i, c)
    /\ loading' = pre.loading
    /\ error' = pre.error
    /\ retryCount' = pre.retryCount
    /\ UNCHANGED <<location, locationName, last>>

\* the retry test without the test of the message
ShouldRetryAnyError(closureRetry, message) == closureRetry < 2

\* the retry test with the wording of the service's timeout message
ShouldRetryTimedOut(closureRetry, message) ==
    closureRetry < 2 /\ (Includes(message, "timed out") \/ Includes(message, "accuracy"))

\* line 61: the retry test of getCurrentLocation's catch block
ShouldRetry(closureRetry, message) ==
    closureRetry < 2 /\ (Includes(message, "timeout") \/ Includes(message, "accuracy"))

\* lines 36-42, 68-70: getCurrentLocationWithName resolved with result
HookThen(i, c, result, resp, out) ==
    /\ location' = result.location
    /\ locationName' = result.locationName
    /\ error' = Null
    /\ retryCount' = 0
    /\ loading' = FALSE
    /\ calls' = Put(i, Retired)
    /\ last' = Completed(i, c, "resolved", resp, out, "")

\* the catch block clearing the stored location
HookCatchClearsLocation(i, c, message, pre) ==
    /\ error' = Err(message)
    /\ retryCount' = IF ShouldRetry(c.closureRetry, message)
                     THEN pre.retryCount + 1 ELSE pre.retryCount
    /\ loading' = FALSE
    /\ calls' = Put(i, IF ShouldRetry(c.closureRetry, message)
                       THEN [c EXCEPT !.pc = "hookRetryTimer"] ELSE Retired)
    /\ last' = Completed(i, c, "rejected", NetFail, Thrown(message), message)
    /\ location' = Null
    /\ locationName' = Null

\* lines 56-70: getCurrentLocationWithName rejected with an error
HookCatch(i, c, message, pre) ==
    /\ error' = Err(message)
    /\ retryCount' = IF ShouldRetry(c.closureRetry, message)
                     THEN pre.retryCount + 1 ELSE pre.retryCount
    /\ loading' = FALSE
    /\ calls' = Put(i, IF ShouldRetry(c.closureRetry, message)
                       THEN [c EXCEPT !.pc = "hookRetryTimer"] ELSE Retired)
    /\ last' = Completed(i, c, "rejected", NetFail, Thrown(message), message)
    /\ UNCHANGED <<location, locationName>>

\* a promise that never settles: the await of the hook never continues
Abandon(i, c, resp, out) ==
    /\ calls' = Put(i, [c EXCEPT !.pc = "abandoned"])
    /\ last' = Completed(i, c, "abandoned", resp, out, out.message)
    /\ UNCHANGED <<location, locationName, loading, error, retryCount>>

\* setManualLocation storing the location before the name is resolved
ManualThenEager(i, c, resp, out) ==
    /\ location' = Location(c.lat, c.lon, NullAccuracy)
    /\ IF out.threw
       THEN error' = Err(out.message) /\ UNCHANGED locationName
       ELSE locationName' = out.place /\ UNCHANGED error
    /\ loading' = FALSE
    /\ calls' = Put(i, Retired)
    /\ last' = Completed(i, c, IF out.threw THEN "rejected" ELSE "resolved",
                         resp, out, out.message)
    /\ UNCHANGED retryCount

\* lines 99-106: the continuation of setManualLocation
ManualThen(i, c, resp, out) ==
    /\ IF out.threw
       THEN /\ error' = Err(out.message)
            /\ UNCHANGED <<location, locationName>>
       ELSE /\ location' = Location(c.lat, c.lon, NullAccuracy)
            /\ locationName' = out.place
            /\ UNCHANGED error
    /\ loading' = FALSE
    /\ calls' = Put(i, Retired)
    /\ last' = Completed(i, c, IF out.threw THEN "rejected" ELSE "resolved",
                         resp, out, out.message)
    /\ UNCHANGED retryCount

-----------------------------------------------------------------------------
(* getCurrentLocationWithName *)

\* the test for a poor fix without the limit on retryCount
NeedsBetterLocationAnyRetry(accuracy, svcRetry) == accuracy > 100

\* line 284: a supplementary request is made for a poor fix
NeedsBetterLocation(accuracy, svcRetry) == accuracy > 100 /\ svcRetry < 2

\* the comparison letting a fix of equal accuracy replace the original
UseBetterOrEqual(betterAccuracy, accuracy) == betterAccuracy <= accuracy

\* line 293: the supplementary fix replaces the original
UseBetter(betterAccuracy, accuracy) == betterAccuracy < accuracy

\* line 355: a timed out request is made again
RetriesTimeout(svcRetry) == svcRetry < 2

\* lines 343-370: the message of the rejection for a platform error code
GeolocationErrorMessage(code) ==
    CASE code = "PERMISSION_DENIED" ->
           "Location access denied. Please allow location access when prompted by your browser."
      [] code = "POSITION_UNAVAILABLE" ->
           "Location unavailable. Please try again or use manual location entry."
      [] code = "TIMEOUT" ->
           "Location request timed out. Please try again or use manual location entry."
      [] OTHER -> "Location error. Please try again or use manual location entry."

Result(lat, lon, acc, place) ==
    [location |-> Location(lat, lon, Metres(acc)), locationName |-> place]

\* the catch block of the success callback throwing for every reading
SuccessCatchThrows(coords, message) ==
    Thrown("latitude.toFixed is not a function")

\* lines 315-336: the catch block of the success callback
SuccessCatch(coords, message) ==
    LET lat4 == ToFixed(coords.latitude, 4)
        lon4 == ToFixed(coords.longitude, 4)
        lat6 == ToFixed(coords.latitude, 6)
        lon6 == ToFixed(coords.longitude, 6)
    IN IF lat4.threw \/ lon4.threw
       THEN Thrown("latitude.toFixed is not a function")
       ELSE Returned(Place(lat4.s \o ", " \o lon4.s,
                           "Coordinates: " \o lat6.s \o ", " \o lon6.s,
                           "Unknown City", "Unknown State", "Unknown Country",
                           coords.latitude, coords.longitude, DegradedAccuracy,
                           message))

\* lines 244-263: the last fallback of processLocation
ProcessLocationCatch(lat, lon, acc, message) ==
    LET lat4 == ToFixed(lat, 4)
        lon4 == ToFixed(lon, 4)
        lat6 == ToFixed(lat, 6)
        lon6 == ToFixed(lon, 6)
    IN IF lat4.threw \/ lon4.threw
       THEN Thrown("lat.toFixed is not a function")
       ELSE Returned(Place(lat4.s \o ", " \o lon4.s,
                           "Coordinates: " \o lat6.s \o ", " \o lon6.s,
                           "Unknown City", "Unknown State", "Unknown Country",
                           lat, lon, acc * 100, message))

\* lines 212-217: processLocation(lat, lng, acc) starts getLocationNameWithRetry,
\* whose getLocationName first waits 100 ms
ProcessLocation(c, r) ==
    [c EXCEPT !.pc = "geoDelay", !.lat = r.latitude, !.lon = r.longitude,
              !.acc = r.accuracy, !.geoRetry = 0, !.fallback = FALSE]

\* line 38: getLocationNameWithRetry tries again after a thrown error
RetriesGeocode(geoRetry) == geoRetry < 2

\* lines 24-34 and 167-174, 268: the synchronous part of getCurrentLocation:
\* the state updates, then getCurrentLocationWithName(retryCount) up to its
\* first getCurrentPosition request
GetCurrentLocation(i, isRetry, closureRetry) ==
    LET pre == [loading |-> TRUE,
                error |-> IF isRetry THEN error ELSE Null,
                retryCount |-> IF isRetry THEN retryCount ELSE 0]
        c == [NewCall EXCEPT !.isRetry = isRetry, !.closureRetry = closureRetry,
                             !.svcRetry = closureRetry]
    IN IF ~geoSupported
       THEN HookCatch(i, c, "Geolocation is not supported by this browser", pre)
       ELSE Continue(i, [c EXCEPT !.pc = "posWait", !.npos = 1], pre)

-----------------------------------------------------------------------------
(* Strings *)

Char(s, i) == SubSeq(s, i, i)

\* the capital letters that occur in the names and queries explored
ToLowerChar(ch) ==
    CASE ch = "I" -> "i"
      [] ch = "M" -> "m"
      [] ch = "S" -> "s"
      [] OTHER -> ch

RECURSIVE toLowerCase(_)
\* String.prototype.toLowerCase
toLowerCase(s) ==
    IF s = "" THEN ""
    ELSE ToLowerChar(Char(s, 1)) \o toLowerCase(SubSeq(s, 2, Len(s)))

RECURSIVE Split(_)
\* String.prototype.split(' '): the pieces between the spaces, the empty
\* pieces included
Split(s) ==
    IF \E i \in 1..Len(s) : Char(s, i) = " "
    THEN LET i == CHOOSE j \in 1..Len(s) :
                     Char(s, j) = " " /\ \A h \in 1..(j - 1) : Char(s, h) # " "
         IN <<SubSeq(s, 1, i - 1)>> \o Split(SubSeq(s, i + 1, Len(s)))
    ELSE <<s>>

RECURSIVE Trim(_)
\* String.prototype.trim
Trim(s) ==
    IF s = "" THEN ""
    ELSE IF Char(s, 1) = " " THEN Trim(SubSeq(s, 2, Len(s)))
    ELSE IF Char(s, Len(s)) = " " THEN Trim(SubSeq(s, 1, Len(s) - 1))
    ELSE s

IsDigit(ch) == \E d \in 0..9 : ToString(d) = ch

RECURSIVE DigitsValue(_)
DigitsValue(s) ==
    IF s = "" THEN 0
    ELSE DigitsValue(SubSeq(s, 1, Len(s) - 1)) * 10
            + (CHOOSE d \in 0..9 : ToString(d) = Char(s, Len(s)))

\* parseFloat on a decimal numeral with at most 6 decimals, the form the
\* provider gives lat and lon in: the number in micro-degrees; NaN for a
\* string that is no numeral
ParseFloat(s) ==
    LET neg == s # "" /\ Char(s, 1) = "-"
        body == IF neg THEN SubSeq(s, 2, Len(s)) ELSE s
        dot == IF \E i \in 1..Len(body) : Char(body, i) = "."
               THEN CHOOSE i \in 1..Len(body) : Char(body, i) = "."
               ELSE Len(body) + 1
        whole == SubSeq(body, 1, dot - 1)
        frac == SubSeq(body, dot + 1, Len(body))
        wellFormed == /\ whole # ""
                      /\ \A i \in 1..Len(whole) : IsDigit(Char(whole, i))
                      /\ \A i \in 1..Len(frac) : IsDigit(Char(frac, i))
                      /\ Len(frac) <= 6
        micro == DigitsValue(whole) * 1000000
                    + DigitsValue(frac) * Pow10(6 - Len(frac))
    IN IF ~wellFormed THEN NaN
       ELSE Num(IF neg THEN 0 - micro ELSE micro)

-----------------------------------------------------------------------------
(* The forward-geocoding provider.  An item of its answer has display_name, *)
(* lat and lon (decimal numerals), importance (in hundredths, 0 when        *)
(* absent) and type.                                                        *)

Item(display_name, lat, lon, importance, type) ==
    [display_name |-> display_name, lat |-> lat, lon |-> lon,
     importance |-> importance, type |-> type]

SearchNetFail == [kind |-> "netfail", status |-> 0, json |-> "invalid", data |-> <<>>]

SearchHttp(status, json, data) ==
    [kind |-> "http", status |-> status, json |-> json, data |-> data]

\* three places of Main St on the meridian of BiasA, 0 m, 600 m and 1200 m
\* north of it, one 2 km and one 30 km north
ItemA == Item("Main St, Springfield", "40.712776", "-74.005974", 10, "road")
ItemB == Item("12 Main St, Springfield", "40.718176", "-74.005974", 30, "residential")
ItemC == Item("123 Main St, Springfield", "40.723576", "-74.005974", 90, "house")
ItemD == Item("Main Street Station", "40.730776", "-74.005974", 0, "street")
ItemE == Item("Springfield", "40.982776", "-74.005974", 60, "city")
ItemF == Item("Illinois", "40.712776", "-74.005974", 80, "state")

\* the n-th of a row of places along the meridian, 2.2 km apart
Row(n) ==
    Item("Stop " \o ToString(n) \o ", Main St", "40." \o ToString(712776 + 20000 * n),
         "-74.005974", 5 * n, IF n % 2 = 0 THEN "building" ELSE "bus_stop")

\* the number of results asked of the provider (limit=10)
ProviderLimit == 10

Rows(n) == [i \in 1..n |-> Row(i)]

Reverse(a) == [i \in 1..Len(a) |-> a[Len(a) + 1 - i]]

\* the answers explored: lists of 0 to 10 items in several orders
DataLists ==
    {<<>>, <<ItemA>>,
     <<ItemA, ItemB, ItemC>>, <<ItemA, ItemC, ItemB>>, <<ItemB, ItemA, ItemC>>,
     <<ItemB, ItemC, ItemA>>, <<ItemC, ItemA, ItemB>>, <<ItemC, ItemB, ItemA>>,
     <<ItemD, ItemE, ItemF>>, <<ItemE, ItemA, ItemD, ItemF>>,
     Rows(8), Reverse(Rows(9)), Rows(ProviderLimit), Reverse(Rows(ProviderLimit))}

SearchResponses ==
    {SearchNetFail, SearchHttp(500, "invalid", <<>>), SearchHttp(200, "object", <<>>)}
       \cup {SearchHttp(200, "array", d) : d \in DataLists}

\* the answers explored with LocationSearch: the failures, an empty list, a
\* list of three and a list longer than the list returned
PlainSearchResponses ==
    {SearchNetFail, SearchHttp(500, "invalid", <<>>), SearchHttp(200, "object", <<>>),
     SearchHttp(200, "array", <<>>), SearchHttp(200, "array", <<ItemB, ItemA, ItemC>>),
     SearchHttp(200, "array", Reverse(Rows(9)))}

BiasA == Location(Num(40712776), Num(-74005974), Metres(20))

\* the values of the currentLocation prop: none, a bias, a bias on the
\* equator and a bias on the prime meridian
Biases ==
    {Null, BiasA, Location(Num(0), Num(-74005974), Metres(20)),
     Location(Num(40712776), Num(0), Metres(20))}

\* what is typed into the input
Typed == {"ma", "Main St ", "main  st"}

\* the queries searchLocations is called with
Queries ==
    {"main st", "main  st", "Main St", "123 Main St, Springfield", "springfield il",
     "station"}

-----------------------------------------------------------------------------
(* searchLocations *)

\* the truth value of a coordinate in a condition
Truthy(x) == x.t = "number" /\ ~x.nan /\ x.v # 0

\* lines 392 and 419: the bias is used
UsesBias(loc) == loc # Null /\ Truthy(loc.latitude) /\ Truthy(loc.longitude)

NoViewbox == [present |-> FALSE, left |-> 0, top |-> 0, right |-> 0, bottom |-> 0]

\* the width of the bias in micro-degrees (0.1 degree)
BiasDelta == 100000

\* lines 389-395: the query of the request sent to the provider; q is the
\* text the provider decodes from the q parameter
SearchRequest(q, loc) ==
    [q |-> q, limit |-> ProviderLimit,
     viewbox |-> IF UsesBias(loc)
                 THEN [present |-> TRUE,
                       left |-> loc.longitude.v - BiasDelta,
                       top |-> loc.latitude.v + BiasDelta,
                       right |-> loc.longitude.v + BiasDelta,
                       bottom |-> loc.latitude.v - BiasDelta]
                 ELSE NoViewbox,
     bounded |-> UsesBias(loc)]

Distance(m) == [null |-> FALSE, m |-> m]
NullDistance == [null |-> TRUE, m |-> 0]

\* the metres of one degree of a great circle: 6371 km * PI / 180
MetresPerDegree == 111195

\* the length in metres of an arc of d micro-degrees, rounded down to within
\* 2 m
ArcMetres(d) ==
    ((d \div 1000) * MetresPerDegree) \div 1000
       + ((d % 1000) * MetresPerDegree) \div 1000000

\* the fractions of the haversine formula are held in ten-thousandths
Unit == 10000

\* a quotient rounded toward zero, as the rounding of a float does not
\* depend on the sign
Quot(n, d) == IF n < 0 THEN 0 - ((0 - n) \div d) ELSE n \div d

\* x * PI / 180 for x in micro-degrees, and half of it: the angle in tenths
\* of a degree
Angle(x) == Quot(x, 100000)
HalfAngle(x) == Quot(x, 200000)

\* Math.sin of an angle of -360 to 360 degrees given in tenths of a degree:
\* an odd function, approximated on 0 to 180 degrees by
\* 4 x (180 - x) / (40500 - x (180 - x))
RECURSIVE Sin(_)
Sin(x) ==
    IF x < 0 THEN 0 - Sin(0 - x)
    ELSE IF x > 1800 THEN 0 - Sin(x - 1800)
    ELSE LET p == (x * (1800 - x)) \div 100
         IN (4 * Unit * p) \div (40500 - p)

\* Math.cos of an angle of -90 to 90 degrees: an even function
Cos(x) == Sin(900 - Abs(x))

RECURSIVE SqrtBetween(_, _, _)
SqrtBetween(n, lo, hi) ==
    IF lo = hi THEN lo
    ELSE LET mid == (lo + hi + 1) \div 2
         IN IF mid * mid <= n THEN SqrtBetween(n, mid, hi)
            ELSE SqrtBetween(n, lo, mid - 1)

\* Math.sqrt of a fraction: NaN for a negative one
Sqrt(n) == IF n < 0 THEN NaN ELSE Num(SqrtBetween(n * Unit, 0, Unit))

\* Math.atan2 of two fractions that are not negative, in thousandths of a
\* degree: atan z is approximated on 0 to 1 by 45 z + 15.642 z (1 - z)
\* degrees
AtanUpTo1(z) == (45000 * z) \div Unit + (((15642 * z) \div Unit) * (Unit - z)) \div Unit

Atan2(y, x) ==
    IF y.nan \/ x.nan THEN NaN
    ELSE IF y.v = 0 THEN Num(0)
    ELSE IF y.v <= x.v THEN Num(AtanUpTo1((y.v * Unit) \div x.v))
    ELSE Num(90000 - AtanUpTo1((x.v * Unit) \div y.v))

\* line 471 with the latitude of the first point in both cosines
HaversineOfFirstLatitude(lat1, lon1, lat2, lon2) ==
    LET sinLat == Sin(HalfAngle(lat2.v - lat1.v))
        sinLon == Sin(HalfAngle(lon2.v - lon1.v))
    IN Quot(sinLat * sinLat, Unit)
          + Quot(Quot(Quot(Cos(Angle(lat1.v)) * Cos(Angle(lat1.v)), Unit) * sinLon, Unit)
                    * sinLon, Unit)

\* lines 470-472: a
Haversine(lat1, lon1, lat2, lon2) ==
    LET sinLat == Sin(HalfAngle(lat2.v - lat1.v))
        sinLon == Sin(HalfAngle(lon2.v - lon1.v))
    IN Quot(sinLat * sinLat, Unit)
          + Quot(Quot(Quot(Cos(Angle(lat1.v)) * Cos(Angle(lat2.v)), Unit) * sinLon, Unit)
                    * sinLon, Unit)

\* lines 473-474: c = 2 atan2(sqrt(a), sqrt(1 - a)) and R * c, in metres
GreatCircle(a) ==
    LET half == Atan2(Sqrt(a), Sqrt(Unit - a))
        c == 2 * half.v
    IN IF half.nan THEN NaN
       ELSE Num((c \div 1000) * MetresPerDegree + ((c % 1000) * MetresPerDegree) \div 1000)

\* lines 468-477, the haversine formula; the distance is a number of whole
\* metres, or NaN.  For two points of one meridian not more than 2 degrees
\* apart a = sin^2(dLat/2), c = |dLat| and the distance is R * |dLat|, held
\* to within 2 m; any other distance is computed in the fractions above,
\* whose rounding, as that of the floats, can leave a above 1 for two
\* antipodal points.
calculateDistance(lat1, lon1, lat2, lon2) ==
    IF lon1.v = lon2.v /\ Abs(lat2.v - lat1.v) <= 2000000
    THEN Num(ArcMetres(Abs(lat2.v - lat1.v)))
    ELSE GreatCircle(Haversine(lat1, lon1, lat2, lon2))

\* lines 482-522; the score is held in hundredths
calculateRelevanceScore(item, q, distance) ==
    LET queryLower == toLowerCase(q)
        displayName == toLowerCase(item.display_name)
        queryWords == Split(queryLower)
        wordMatches == Cardinality({i \in DOMAIN queryWords :
                                       Includes(displayName, queryWords[i])})
    IN item.importance * 10
       + (IF Includes(displayName, queryLower) THEN 5000 ELSE 0)
       + wordMatches * 1000
       + (IF distance.null THEN 0
          ELSE IF distance.m < 1000 THEN 3000
          ELSE IF distance.m < 5000 THEN 2000
          ELSE IF distance.m < 20000 THEN 1000
          ELSE 500)
       + (IF item.type = "house" \/ item.type = "building" THEN 1500
          ELSE IF item.type = "street" THEN 1200
          ELSE IF item.type = "city" THEN 800
          ELSE IF item.type = "state" THEN 500
          ELSE 0)

\* lines 411-437: the candidate made of one item
Candidate(item, q, loc) ==
    LET coords == [latitude |-> ParseFloat(item.lat),
                   longitude |-> ParseFloat(item.lon)]
        distance == IF UsesBias(loc)
                    THEN LET d == calculateDistance(loc.latitude, loc.longitude,
                                                    coords.latitude, coords.longitude)
                         IN CASE ~d.nan -> Distance(d.v)
                    ELSE NullDistance
    IN [name |-> item.display_name, coordinates |-> coords,
        importance |-> item.importance, type |-> item.type,
        distance |-> distance,
        relevanceScore |-> calculateRelevanceScore(item, q, distance)]

\* lines 440-449: the comparator of the sort; negative when a goes first
Compare(a, b) ==
    IF ~a.distance.null /\ ~b.distance.null
    THEN IF Abs(a.distance.m - b.distance.m) < 1000
         THEN b.relevanceScore - a.relevanceScore
         ELSE a.distance.m - b.distance.m
    ELSE b.relevanceScore - a.relevanceScore

\* the first run of a and whether it descends (CountAndMakeRun)
RECURSIVE RunEnd(_, _, _)
RunEnd(a, idx, descending) ==
    IF idx > Len(a) THEN idx - 1
    ELSE LET order == Compare(a[idx], a[idx - 1])
         IN IF (descending /\ order >= 0) \/ (~descending /\ order < 0)
            THEN idx - 1
            ELSE RunEnd(a, idx + 1, descending)

RECURSIVE BinarySearch(_, _, _, _)
\* the place of pivot among a[1..right], found by bisection between the
\* 0-based bounds left and right
BinarySearch(a, pivot, left, right) ==
    IF left >= right THEN left
    ELSE LET mid == left + (right - left) \div 2
         IN IF Compare(pivot, a[mid + 1]) < 0
            THEN BinarySearch(a, pivot, left, mid)
            ELSE BinarySearch(a, pivot, mid + 1, right)

RECURSIVE BinaryInsertionSort(_, _)
\* a[1..start] is sorted; the elements after it are inserted one by one
BinaryInsertionSort(a, start) ==
    IF start >= Len(a) THEN a
    ELSE LET pivot == a[start + 1]
             left == BinarySearch(a, pivot, 0, start)
         IN BinaryInsertionSort(SubSeq(a, 1, left) \o <<pivot>>
                                   \o SubSeq(a, left + 1, start)
                                   \o SubSeq(a, start + 2, Len(a)),
                                start + 1)

\* Array.prototype.sort as TimSort does it for an array of fewer than 32
\* elements: the first run is found, reversed when it descends, and the
\* rest is inserted by binary insertion
TimSort(a) ==
    IF Len(a) < 2 THEN a
    ELSE LET descending == Compare(a[2], a[1]) < 0
             run == RunEnd(a, 3, descending)
             made == IF descending
                     THEN Reverse(SubSeq(a, 1, run)) \o SubSeq(a, run + 1, Len(a))
                     ELSE a
         IN BinaryInsertionSort(made, run)

RECURSIVE Merge(_, _)
Merge(l, r) ==
    IF l = <<>> THEN r
    ELSE IF r = <<>> THEN l
    ELSE IF Compare(r[1], l[1]) < 0
    THEN <<r[1]>> \o Merge(l, Tail(r))
    ELSE <<l[1]>> \o Merge(Tail(l), r)

RECURSIVE MergeSort(_)
\* Array.prototype.sort as a stable merge sort does it
MergeSort(a) ==
    IF Len(a) < 2 THEN a
    ELSE LET mid == Len(a) \div 2
         IN Merge(MergeSort(SubSeq(a, 1, mid)), MergeSort(SubSeq(a, mid + 1, Len(a))))

SortEngines == {"timsort", "mergesort"}

\* lines 440-449: results.sort(comparator)
Sort(a, engine) == IF engine = "timsort" THEN TimSort(a) ELSE MergeSort(a)

\* the number of candidates returned
MaxResults == 8

\* the whole sorted list returned
TopResultsAll(sorted) == sorted

\* line 457: sortedResults.slice(0, 8)
TopResults(sorted) ==
    SubSeq(sorted, 1, IF Len(sorted) < MaxResults THEN Len(sorted) ELSE MaxResults)

SearchThrown(message) ==
    [threw |-> TRUE, message |-> message, sorted |-> <<>>, results |-> <<>>]

\* lines 384-463: searchLocations(query, currentLocation) once the provider
\* has answered with resp
SearchOutcome(q, loc, resp, engine) ==
    IF resp.kind = "netfail" THEN SearchThrown("Failed to fetch")
    ELSE IF ~ResponseOk(resp)
    THEN SearchThrown("HTTP error! status: " \o ToString(resp.status))
    ELSE IF resp.json = "invalid" THEN SearchThrown("Unexpected token in JSON")
    ELSE IF resp.json # "array" THEN SearchThrown("data.map is not a function")
    ELSE LET results == [i \in 1..Len(resp.data) |-> Candidate(resp.data[i], q, loc)]
             sortedResults == Sort(results, engine)
         IN [threw |-> FALSE, message |-> "", sorted |-> sortedResults,
             results |-> TopResults(sortedResults)]

-----------------------------------------------------------------------------
(* LocationSearch *)

\* the number of performSearch invocations explored
MaxSearches == 2

NewSearch(q, loc) ==
    [pc |-> "fetch", q |-> q, bias |-> loc, request |-> SearchRequest(q, loc)]

RetiredSearch == [NewSearch("", Null) EXCEPT !.pc = "done"]

SearchCompleted(k, s, resp, out) == [id |-> k, search |-> s, resp |-> resp, out |-> out]

NoSearchCompleted ==
    SearchCompleted(0, RetiredSearch, SearchNetFail, SearchThrown(""))

\* a call of calculateDistance(lat1, lon1, lat2, lon2), of the call with the
\* points exchanged and of the call with the first point twice
Measurement(lat1, lon1, lat2, lon2) ==
    [pc |-> "call", lat1 |-> lat1, lon1 |-> lon1, lat2 |-> lat2, lon2 |-> lon2,
     there |-> Num(0), back |-> Num(0), same |-> Num(0)]

NoMeasurement == [Measurement(Num(0), Num(0), Num(0), Num(0)) EXCEPT !.pc = "none"]

\* the state of a LocationSearch that is not rendered
NoLocationSearch ==
    /\ query = ""
    /\ suggestions = <<>>
    /\ searchLoading = FALSE
    /\ showSuggestions = FALSE
    /\ currentLocation = Null
    /\ sortEngine = "timsort"
    /\ timer = {}
    /\ searches = <<>>
    /\ lastSearch = NoSearchCompleted
    /\ measured = NoMeasurement

-----------------------------------------------------------------------------
(* Actions *)

InitWith(platform, provider) ==
    /\ location = Null
    /\ locationName = Null
    /\ loading = FALSE
    /\ error = Null
    /\ retryCount = 0
    /\ showManualInput = FALSE
    /\ mounted = FALSE
    /\ geoSupported \in BOOLEAN
    /\ positions = platform
    /\ responses = provider
    /\ calls = <<>>
    /\ last = NoneCompleted
    /\ NoLocationSearch

\* every platform outcome, a provider that answers with data or a server error
Init == InitWith(PositionOutcomes, PlainResponses)

\* every provider outcome, a platform with a good fix, a poor fix or a denial
InitGeo == InitWith(GeoPositions, Responses)

\* a platform with an outcome for each path of an acquisition
InitLive == InitWith(LivePositions, PlainResponses)

\* useGeolocation.jsx lines 109-118: the mount effect
MountEffect ==
    /\ ~mounted
    /\ mounted' = TRUE
    /\ GetCurrentLocation(Len(calls) + 1, FALSE, 0)
    /\ UNCHANGED <<showManualInput, geoSupported, positions, responses>>
    /\ UNCHANGED searchVars

\* HomePage.jsx lines 134-141: the Try Again button, shown with an error in
\* the automatic view and disabled while loading
TryAgain ==
    /\ mounted
    /\ ~showManualInput
    /\ error # Null
    /\ ~loading
    /\ Len(calls) < MaxCalls
    /\ GetCurrentLocation(Len(calls) + 1, FALSE, retryCount)
    /\ UNCHANGED <<showManualInput, mounted, geoSupported, positions, responses>>
    /\ UNCHANGED searchVars

\* HomePage.jsx lines 41-55
handleLocationToggle ==
    /\ mounted
    /\ IF showManualInput
       THEN /\ Len(calls) < MaxCalls
            /\ showManualInput' = FALSE
            /\ GetCurrentLocation(Len(calls) + 1, FALSE, retryCount)
       ELSE /\ showManualInput' = TRUE
            /\ UNCHANGED <<location, locationName, loading, error, retryCount,
                           calls, last>>
    /\ UNCHANGED <<mounted, geoSupported, positions, responses>>
    /\ UNCHANGED searchVars

\* useGeolocation.jsx lines 94-99, called by handleAddressSelect and
\* handleMapLocationSelect of the manual view: up to the 100 ms wait of
\* getLocationName
setManualLocation(latitude, longitude) ==
    /\ mounted
    /\ showManualInput
    /\ Len(calls) < MaxCalls
    /\ Continue(Len(calls) + 1,
                [NewCall EXCEPT !.kind = "manual", !.pc = "geoDelay",
                                !.lat = latitude, !.lon = longitude],
                [loading |-> TRUE, error |-> Null, retryCount |-> retryCount])
    /\ UNCHANGED <<showManualInput, mounted, geoSupported, positions, responses>>
    /\ UNCHANGED searchVars

\* the success callback going on to processLocation with the original fix
\* while the supplementary request it has made is still out
PositionCallbackNoReturn(i, position) ==
    LET c == [calls[i] EXCEPT !.outcomes = Append(@, position.code)]
        coords == position.coords
    IN /\ calls[i].pc = "posWait"
       /\ IF position.code = "OK"
          THEN IF ~isValidCoordinates(coords.latitude, coords.longitude)
               THEN LET out == SuccessCatch(coords, "Invalid coordinates received")
                    IN IF out.threw
                       THEN Abandon(i, c, NetFail, out)
                       ELSE HookThen(i, [c EXCEPT !.orig = coords],
                                     Result(coords.latitude, coords.longitude,
                                            coords.accuracy, out.place),
                                     NetFail, out)
               ELSE IF NeedsBetterLocation(coords.accuracy, c.svcRetry)
               THEN Continue(i, ProcessLocation([c EXCEPT !.orig = coords,
                                                          !.nsup = @ + 1], coords),
                             HookState)
               ELSE Continue(i, ProcessLocation([c EXCEPT !.orig = coords], coords),
                             HookState)
          ELSE IF position.code = "TIMEOUT" /\ RetriesTimeout(c.svcRetry)
          THEN Continue(i, [c EXCEPT !.pc = "retryTimer"], HookState)
          ELSE HookCatch(i, c, GeolocationErrorMessage(position.code), HookState)
       /\ UNCHANGED <<showManualInput, mounted, geoSupported, positions, responses>>
       /\ UNCHANGED searchVars

\* locationService.js lines 269-372: the callbacks of the primary request
PositionCallback(i, position) ==
    LET c == [calls[i] EXCEPT !.outcomes = Append(@, position.code)]
        coords == position.coords
    IN /\ calls[i].pc = "posWait"
       /\ IF position.code = "OK"
          THEN IF ~isValidCoordinates(coords.latitude, coords.longitude)
               THEN LET out == SuccessCatch(coords, "Invalid coordinates received")
                    IN IF out.threw
                       THEN Abandon(i, c, NetFail, out)
                       ELSE HookThen(i, [c EXCEPT !.orig = coords],
                                     Result(coords.latitude, coords.longitude,
                                            coords.accuracy, out.place),
                                     NetFail, out)
               ELSE IF NeedsBetterLocation(coords.accuracy, c.svcRetry)
               THEN Continue(i, [c EXCEPT !.pc = "supWait", !.orig = coords,
                                          !.nsup = @ + 1], HookState)
               ELSE Continue(i, ProcessLocation([c EXCEPT !.orig = coords], coords),
                             HookState)
          ELSE IF position.code = "TIMEOUT" /\ RetriesTimeout(c.svcRetry)
          THEN Continue(i, [c EXCEPT !.pc = "retryTimer"], HookState)
          ELSE HookCatch(i, c, GeolocationErrorMessage(position.code), HookState)
       /\ UNCHANGED <<showManualInput, mounted, geoSupported, positions, responses>>
       /\ UNCHANGED searchVars

\* locationService.js lines 289-304: the callbacks of the supplementary request
SupplementaryCallback(i, position) ==
    LET c == [calls[i] EXCEPT !.sup = position]
    IN /\ calls[i].pc = "supWait"
       /\ IF position.code = "OK"
             /\ UseBetter(position.coords.accuracy, c.orig.accuracy)
          THEN Continue(i, ProcessLocation(c, position.coords), HookState)
          ELSE Continue(i, ProcessLocation(c, c.orig), HookState)
       /\ UNCHANGED <<showManualInput, mounted, geoSupported, positions, responses>>
       /\ UNCHANGED searchVars

\* a timer runs out: the 2 s timer of the TIMEOUT case (lines 357-361), the
\* 100 ms wait of getLocationName followed by its request (lines 58-68), the
\* backoff of getLocationNameWithRetry (lines 40-41), or the retry timer of
\* getCurrentLocation (useGeolocation.jsx lines 64-66)
TimerFires(i) ==
    LET c == calls[i]
    IN /\ c.pc \in {"retryTimer", "geoDelay", "geoRetryTimer", "hookRetryTimer"}
       /\ CASE c.pc = "retryTimer" ->
                 Continue(i, [c EXCEPT !.pc = "posWait", !.svcRetry = @ + 1,
                                       !.npos = @ + 1], HookState)
            [] c.pc = "geoDelay" ->
                 Continue(i, [c EXCEPT !.pc = "geoWait", !.ngeo = @ + 1,
                                       !.sup = NoPosition], HookState)
            [] c.pc = "geoRetryTimer" ->
                 Continue(i, [c EXCEPT !.pc = "geoDelay", !.geoRetry = @ + 1],
                          HookState)
            [] c.pc = "hookRetryTimer" ->
                 /\ c.npos < MaxRequests
                 /\ IF ~geoSupported
                    THEN HookCatch(i, c, "Geolocation is not supported by this browser",
                                   [HookState EXCEPT !.loading = TRUE])
                    ELSE Continue(i, [c EXCEPT !.pc = "posWait", !.isRetry = TRUE,
                                               !.svcRetry = c.closureRetry,
                                               !.npos = @ + 1],
                                  [HookState EXCEPT !.loading = TRUE])
       /\ UNCHANGED <<showManualInput, mounted, geoSupported, positions, responses>>
       /\ UNCHANGED searchVars

\* the provider answers the request of getLocationName: lines 70-161, then
\* the caller's continuation (getLocationNameWithRetry in processLocation,
\* lines 30-45 and 215-265, or setManualLocation)
ProviderResponds(i, resp) ==
    LET c == calls[i]
        out == GetLocationName(c.lat, c.lon, resp)
        gps(place) == Result(c.lat, c.lon, c.acc, place)
    IN /\ c.pc = "geoWait"
       /\ IF c.kind = "manual" THEN ManualThen(i, c, resp, out)
          ELSE IF ~out.threw THEN HookThen(i, c, gps(out.place), resp, out)
          ELSE IF ~c.fallback /\ RetriesGeocode(c.geoRetry)
          THEN Continue(i, [c EXCEPT !.pc = "geoRetryTimer"], HookState)
          ELSE IF ~c.fallback
          THEN Continue(i, [c EXCEPT !.pc = "geoDelay", !.fallback = TRUE,
                                     !.firstError = out.message], HookState)
          ELSE LET fb == ProcessLocationCatch(c.lat, c.lon, c.acc, c.firstError)
               IN IF fb.threw THEN Abandon(i, c, resp, fb)
                  ELSE HookThen(i, c, gps(fb.place), resp, fb)
       /\ UNCHANGED <<showManualInput, mounted, geoSupported, positions, responses>>
       /\ UNCHANGED searchVars

Next ==
    \/ MountEffect
    \/ TryAgain
    \/ handleLocationToggle
    \/ \E m \in ManualCoordinates : setManualLocation(m[1], m[2])
    \/ \E i \in 1..Len(calls) : \E position \in positions :
          PositionCallback(i, position)
    \/ \E i \in 1..Len(calls) : \E position \in SupplementaryOutcomes :
          SupplementaryCallback(i, position)
    \/ \E i \in 1..Len(calls) : TimerFires(i)
    \/ \E i \in 1..Len(calls) : \E resp \in responses : ProviderResponds(i, resp)

Spec == Init /\ [][Next]_vars

\* the same program against every outcome of the reverse-geocoding provider
SpecGeo == InitGeo /\ [][Next]_vars

\* the platform calls back for every position request, every timer runs
\* out and the provider completes every request
Completion(i) ==
    /\ WF_vars(i \in DOMAIN calls /\ \E position \in positions :
                                         PositionCallback(i, position))
    /\ WF_vars(i \in DOMAIN calls /\ \E position \in SupplementaryOutcomes :
                                         SupplementaryCallback(i, position))
    /\ WF_vars(i \in DOMAIN calls /\ TimerFires(i))
    /\ WF_vars(i \in DOMAIN calls /\ \E resp \in responses :
                                         ProviderResponds(i, resp))

\* the program with a platform and a provider that complete every request
SpecLive == InitLive /\ [][Next]_vars /\ \A i \in 1..MaxCalls : Completion(i)

-----------------------------------------------------------------------------
(* LocationSearch: actions *)

\* LocationSearch.jsx lines 5-25: the state after the first render, with the
\* timer of the debounce effect set for the empty query
InitSearchWith(biases) ==
    /\ location = Null
    /\ locationName = Null
    /\ loading = FALSE
    /\ error = Null
    /\ retryCount = 0
    /\ showManualInput = TRUE
    /\ mounted = TRUE
    /\ geoSupported = FALSE
    /\ positions = {}
    /\ responses = {}
    /\ calls = <<>>
    /\ last = NoneCompleted
    /\ query = ""
    /\ suggestions = <<>>
    /\ searchLoading = FALSE
    /\ showSuggestions = FALSE
    /\ currentLocation \in biases
    /\ sortEngine \in SortEngines
    /\ timer = {query}
    /\ searches = <<>>
    /\ lastSearch = NoSearchCompleted
    /\ measured = NoMeasurement

\* LocationSearch without a bias, as HomePage renders it, or with one
InitSearch == InitSearchWith({Null, BiasA})

\* every bias
InitRank == InitSearchWith(Biases)

\* a change of the input whose effect sets a timer without the cleanup of
\* the previous one
handleInputChangeNoCleanup(value) ==
    /\ value # query
    /\ query' = value
    /\ showSuggestions' = TRUE
    /\ timer' = timer \cup {value}
    /\ UNCHANGED <<suggestions, searchLoading, currentLocation, sortEngine,
                   searches, lastSearch>>
    /\ UNCHANGED <<hookVars, measured>>

\* lines 45-48 and 14-25: a change of the input; the cleanup of the effect
\* clears the timer of the previous query (line 24) and the effect sets one
\* whose callback holds the new query (lines 15-22)
handleInputChange(value) ==
    /\ value # query
    /\ query' = value
    /\ showSuggestions' = TRUE
    /\ timer' = (timer \ {query}) \cup {value}
    /\ UNCHANGED <<suggestions, searchLoading, currentLocation, sortEngine,
                   searches, lastSearch>>
    /\ UNCHANGED <<hookVars, measured>>

\* line 16: the test of the debounce effect on the trimmed query
DebounceSearches(q) == Len(q) > 2

\* lines 15-22 and 27-31: a timer fires, 300 ms after it was set; its
\* callback tests the query it captured; performSearch up to the request of
\* searchLocations
DebounceFires ==
    \E q \in timer :
    /\ timer' = timer \ {q}
    /\ IF DebounceSearches(Trim(q))
       THEN /\ Len(searches) < MaxSearches
            /\ searchLoading' = TRUE
            /\ searches' = Append(searches, NewSearch(Trim(q), currentLocation))
            /\ UNCHANGED <<suggestions, showSuggestions>>
       ELSE /\ suggestions' = <<>>
            /\ showSuggestions' = FALSE
            /\ UNCHANGED <<searchLoading, searches>>
    /\ UNCHANGED <<query, currentLocation, sortEngine, lastSearch>>
    /\ UNCHANGED <<hookVars, measured>>

\* lines 32-35, 40-42: searchLocations resolved
PerformSearchThen(out) ==
    /\ suggestions' = out.results
    /\ showSuggestions' = TRUE
    /\ searchLoading' = FALSE

\* the catch block leaving the suggestions as they are
PerformSearchCatchKeeps(out) ==
    /\ searchLoading' = FALSE
    /\ UNCHANGED <<suggestions, showSuggestions>>

\* lines 36-42: searchLocations rejected
PerformSearchCatch(out) ==
    /\ suggestions' = <<>>
    /\ showSuggestions' = FALSE
    /\ searchLoading' = FALSE

\* the provider answers the request of search k: searchLocations lines
\* 403-462, then the continuation of performSearch
SearchResponds(k, resp) ==
    LET s == searches[k]
        out == SearchOutcome(s.q, s.bias, resp, sortEngine)
    IN /\ s.pc = "fetch"
       /\ IF out.threw THEN PerformSearchCatch(out) ELSE PerformSearchThen(out)
       /\ searches' = [searches EXCEPT ![k] = RetiredSearch]
       /\ lastSearch' = SearchCompleted(k, s, resp, out)
       /\ UNCHANGED <<query, currentLocation, sortEngine, timer>>
       /\ UNCHANGED <<hookVars, measured>>

\* lines 50-55 and 14-25: a suggestion of the open list is chosen; the
\* query becomes its name; a changed query clears the timer of the previous
\* one and sets one for the name
handleSuggestionClick(i) ==
    /\ showSuggestions
    /\ i \in 1..Len(suggestions)
    /\ query' = suggestions[i].name
    /\ showSuggestions' = FALSE
    /\ suggestions' = <<>>
    /\ timer' = IF suggestions[i].name # query
                THEN (timer \ {query}) \cup {suggestions[i].name}
                ELSE timer
    /\ UNCHANGED <<searchLoading, currentLocation, sortEngine, searches, lastSearch>>
    /\ UNCHANGED <<hookVars, measured>>

NextSearch ==
    \/ \E value \in Typed : handleInputChange(value)
    \/ DebounceFires
    \/ \E k \in 1..Len(searches) : \E resp \in PlainSearchResponses :
          SearchResponds(k, resp)
    \/ \E i \in 1..Len(suggestions) : handleSuggestionClick(i)

\* LocationSearch and searchLocations against the forward-geocoding provider
SpecSearch == InitSearch /\ [][NextSearch]_vars

\* locationService.js lines 384-463: a call of searchLocations(q,
\* currentLocation) answered by the provider with resp; one call is followed
\* in a behaviour, the function keeps no state between calls
searchLocations(q, resp) ==
    /\ lastSearch = NoSearchCompleted
    /\ lastSearch' = SearchCompleted(0, NewSearch(q, currentLocation), resp,
                                     SearchOutcome(q, currentLocation, resp, sortEngine))
    /\ UNCHANGED <<query, suggestions, searchLoading, showSuggestions,
                   currentLocation, sortEngine, timer, searches>>
    /\ UNCHANGED <<hookVars, measured>>

NextRank == \E q \in Queries : \E resp \in SearchResponses : searchLocations(q, resp)

\* searchLocations applied to every query, bias and provider answer explored
SpecRank == InitRank /\ [][NextRank]_vars

-----------------------------------------------------------------------------
(* getLocationName applied to the payloads of the provider *)

\* every address made of present and absent fields
Addresses ==
    [house_number : {"", "10"}, road : {"", "Main St"}, suburb : {"", "Downtown"},
     neighbourhood : {"", "Old Town"}, city : {"", "Springfield"},
     town : {"", "Shelbyville"}, village : {"", "Ogdenville"},
     state : {"", "Illinois"}, country : {"", "USA"}]

\* the payloads with data: an address, with or without a display name, or a
\* display name alone
AddressPayloads ==
    {[Http(200, "object") EXCEPT !.display_name = d, !.hasAddress = TRUE,
                                 !.address = a] :
        d \in {"", "Main St, Springfield, Illinois, USA"}, a \in Addresses}
       \cup {NameOnlyPayload}

InitName == InitWith({}, AddressPayloads)

\* locationService.js lines 53-161: one call of getLocationName(latitude,
\* longitude) answered by the provider with resp; one call is followed in a
\* behaviour, the function keeps no state between calls
getLocationName(latitude, longitude, resp) ==
    LET c == [NewCall EXCEPT !.kind = "geocode", !.pc = "done", !.lat = latitude,
                             !.lon = longitude, !.ngeo = 1]
        out == GetLocationName(latitude, longitude, resp)
    IN /\ last = NoneCompleted
       /\ last' = Completed(0, c, IF out.threw THEN "rejected" ELSE "resolved",
                            resp, out, out.message)
       /\ UNCHANGED <<location, locationName, loading, error, retryCount,
                      showManualInput, mounted, geoSupported, positions, responses,
                      calls>>
       /\ UNCHANGED searchVars

NextName == \E resp \in responses : getLocationName(LatA, LonA, resp)

\* getLocationName applied to every payload explored
SpecName == InitName /\ [][NextName]_vars

-----------------------------------------------------------------------------
(* calculateDistance applied to pairs of valid coordinates *)

\* latitudes and longitudes, in micro-degrees: the poles, the equator, the
\* antimeridian, the place of BiasA and its antipode
Latitudes == {-90000000, -81400000, -40712776, 0, 40712776, 81400000, 90000000}
Longitudes == {-180000000, -74005974, 0, 105994026, 180000000}

InitDistance ==
    /\ location = Null
    /\ locationName = Null
    /\ loading = FALSE
    /\ error = Null
    /\ retryCount = 0
    /\ showManualInput = FALSE
    /\ mounted = FALSE
    /\ geoSupported = FALSE
    /\ positions = {}
    /\ responses = {}
    /\ calls = <<>>
    /\ last = NoneCompleted
    /\ query = ""
    /\ suggestions = <<>>
    /\ searchLoading = FALSE
    /\ showSuggestions = FALSE
    /\ currentLocation = Null
    /\ sortEngine = "timsort"
    /\ timer = {}
    /\ searches = <<>>
    /\ lastSearch = NoSearchCompleted
    /\ measured \in {Measurement(Num(lat1), Num(lon1), Num(lat2), Num(lon2)) :
                         lat1 \in Latitudes, lon1 \in Longitudes,
                         lat2 \in Latitudes, lon2 \in Longitudes}

\* locationService.js lines 468-477: the three calls
MeasureDistance ==
    /\ measured.pc = "call"
    /\ isValidCoordinates(measured.lat1, measured.lon1)
    /\ isValidCoordinates(measured.lat2, measured.lon2)
    /\ measured' = [measured EXCEPT
          !.pc = "done",
          !.there = calculateDistance(measured.lat1, measured.lon1,
                                      measured.lat2, measured.lon2),
          !.back = calculateDistance(measured.lat2, measured.lon2,
                                     measured.lat1, measured.lon1),
          !.same = calculateDistance(measured.lat1, measured.lon1,
                                     measured.lat1, measured.lon1)]
    /\ UNCHANGED <<hookVars, query, suggestions, searchLoading, showSuggestions,
                   currentLocation, sortEngine, timer, searches, lastSearch>>

NextDistance == MeasureDistance

\* calculateDistance applied to every pair of the coordinates explored
SpecDistance == InitDistance /\ [][NextDistance]_vars

-----------------------------------------------------------------------------
(* Properties.  An invocation that has completed is described by last; the  *)
(* invocations still running are the records of calls.                      *)

Calls == 1..Len(calls)

IsNumber(x) == x.t = "number"

\* last describes a getLocationName call that has completed
GeocodeCompleted == last.status # "none" /\ last.call.ngeo > 0

\* a getLocationName call threw: setManualLocation caught it, or
\* getLocationNameWithRetry caught it and is retrying or has given up
GeocodeThrew ==
    \/ GeocodeCompleted /\ last.out.threw
    \/ \E i \in Calls : calls[i].pc = "geoRetryTimer" \/ calls[i].fallback

\* the provider failed: network failure, a status that is not 2xx, or a 2xx
\* answer whose payload is null, empty, falsy or an error payload
ProviderFailed(resp) ==
    \/ resp.kind = "netfail"
    \/ ~ResponseOk(resp)
    \/ resp.json # "object"
    \/ resp.error # ""
    \/ resp.display_name = "" /\ ~resp.hasAddress

C2_InvalidCoordinateRejected ==
    /\ \A i \in Calls :
          calls[i].ngeo > 0 => isValidCoordinates(calls[i].lat, calls[i].lon)
    /\ (last.status # "none" /\ last.call.kind = "manual"
          /\ ~isValidCoordinates(last.call.lat, last.call.lon))
          => /\ last.call.ngeo = 0
             /\ last.out.threw
             /\ last.out.message = "InvalidCoordinate"

\* the place returned is a degraded one
Degraded(place) == place.k = "place" /\ place.error # ""

\* C3: when the provider fails, getLocationNameWithRetry retries up to 2 more
\* times: a degraded place is returned by processLocation only after 3
\* provider requests.
C3_DegradedAfterThreeRequests ==
    (last.status = "resolved" /\ last.call.kind = "gps" /\ last.call.ngeo > 0
        /\ Degraded(last.out.place))
       => last.call.ngeo = 3

\* C4: in every state of the hook, location # null implies locationName #
\* null (a place), also when every reverse-geocoding request fails.
C4_LocationHasPlace ==
    location # Null => locationName # Null /\ locationName.k = "place"

\* a location is held although the provider request failed
C4_Witness ==
    /\ location # Null
    /\ last.status = "resolved"
    /\ last.call.ngeo > 0
    /\ ProviderFailed(last.resp)
    /\ locationName = last.out.place
    /\ Degraded(locationName)

\* the class of an error reason
ReasonClass(message) ==
    IF Includes(message, "Rate limit") THEN "RateLimited"
    ELSE IF Includes(message, "Access forbidden") THEN "AccessForbidden"
    ELSE IF Includes(message, "HTTP error") THEN "ProviderError"
    ELSE IF Includes(message, "fetch") THEN "Network"
    ELSE "NotFound"

\* the class of a provider failure
FailureClass(resp) ==
    IF resp.kind = "netfail" THEN "Network"
    ELSE IF resp.status = 429 THEN "RateLimited"
    ELSE IF resp.status = 403 THEN "AccessForbidden"
    ELSE IF ~ResponseOk(resp) THEN "ProviderError"
    ELSE "NotFound"

\* C5: the degraded place returned after a provider failure has the
\* formatted input coordinate as its name, confidence 0.1, the three
\* Unknown fields, the input coordinates, and an error reason whose class
\* tells 429, 403, another non-2xx status and a bad payload apart.
C5_DegradedPlace ==
    (GeocodeCompleted /\ ProviderFailed(last.resp) /\ ~last.out.threw)
       => LET place == last.out.place
              lat == last.call.lat
              lon == last.call.lon
          IN /\ place.name = ToFixed(lat, 4).s \o ", " \o ToFixed(lon, 4).s
             /\ place.accuracy = 10
             /\ place.city = "Unknown City"
             /\ place.state = "Unknown State"
             /\ place.country = "Unknown Country"
             /\ place.coordinates = [latitude |-> lat, longitude |-> lon]
             /\ place.error # ""
             /\ ReasonClass(place.error) = FailureClass(last.resp)

\* a degraded place was returned for a 403 answer, with a rounded name
C5_Witness ==
    /\ GeocodeCompleted
    /\ last.resp.status = 403
    /\ ~last.out.threw
    /\ last.out.place.name = "40.7128, -74.0060"
    /\ last.out.place.error = "Access forbidden. Please check your internet connection."

-----------------------------------------------------------------------------
(* Acquisition *)

Terminal == {"PERMISSION_DENIED", "POSITION_UNAVAILABLE"}

LastOf(seq) == seq[Len(seq)]

TimedOutMessage ==
    "Location request timed out. Please try again or use manual location entry."

\* last describes a getCurrentLocation invocation that has completed
AcquisitionCompleted == last.status # "none" /\ last.call.kind = "gps"

\* C6: at most one acquisition is in flight: two getCurrentLocation
\* invocations never run at the same time.
C6_AtMostOneAcquisition == Cardinality(Acquiring) <= 1

\* C7: a PERMISSION_DENIED or POSITION_UNAVAILABLE callback ends the
\* invocation at once, rejected with the matching message, and no position
\* request follows it, neither from the service nor from the hook's retry.
C7_TerminalErrorsEndAcquisition ==
    /\ \A i \in Calls : \A k \in DOMAIN calls[i].outcomes :
          calls[i].outcomes[k] \notin Terminal
    /\ (AcquisitionCompleted
          /\ \E k \in DOMAIN last.call.outcomes : last.call.outcomes[k] \in Terminal)
          => /\ last.status = "rejected"
             /\ LastOf(last.call.outcomes) \in Terminal
             /\ \A k \in 1..(Len(last.call.outcomes) - 1) :
                   last.call.outcomes[k] \notin Terminal
             /\ last.call.npos = Len(last.call.outcomes)
             /\ calls[last.id].pc = "done"
             /\ LastOf(last.call.outcomes) = "PERMISSION_DENIED"
                   => Includes(last.message, "Location access denied")
             /\ LastOf(last.call.outcomes) = "POSITION_UNAVAILABLE"
                   => Includes(last.message, "Location unavailable")

\* a denial that followed a timeout ended the invocation
C7_Witness ==
    /\ AcquisitionCompleted
    /\ last.status = "rejected"
    /\ last.call.outcomes = <<"TIMEOUT", "PERMISSION_DENIED">>
    /\ last.call.npos = 2

Resolves == last' # last /\ last'.status = "resolved" /\ last'.call.kind = "gps"

\* C9: an acquisition that ends resolved leaves retryCount at 0; when its
\* first two position requests timed out and the third succeeded, it ends
\* resolved and the location stored is the third fix.
C9_ResolvedResetsRetryCount ==
    [][/\ Resolves => retryCount' = 0 /\ ~loading' /\ error' = Null
       /\ (last' # last /\ last'.call.outcomes = <<"TIMEOUT", "TIMEOUT", "OK">>)
             => /\ last'.status = "resolved"
                /\ location' = Location(last'.call.orig.latitude,
                                        last'.call.orig.longitude,
                                        Metres(last'.call.orig.accuracy))]_vars

\* two timeouts, then a poor fix that was stored
C9_Witness ==
    /\ AcquisitionCompleted
    /\ last.call.outcomes = <<"TIMEOUT", "TIMEOUT", "OK">>
    /\ last.status = "resolved"
    /\ last.call.orig.accuracy = 200
    /\ location = Location(last.call.orig.latitude, last.call.orig.longitude,
                           Metres(200))
    /\ retryCount = 0

\* the fix of the primary request of call c is poor and a retry is left
PoorFix(c) == c.orig.accuracy > 100 /\ c.svcRetry < 2

AsReading(c) == Reading(c.lat, c.lon, c.acc)

-----------------------------------------------------------------------------
(* Manual entry *)

\* the step completes invocation i
Completes(i) == calls[i].pc # "done" /\ calls'[i].pc = "done"

\* the step is a call of setManualLocation
ManualCalled ==
    /\ Len(calls') = Len(calls) + 1
    /\ calls'[Len(calls')].kind = "manual"

\* C11: setManualLocation called with an invalid coordinate (out of range,
\* NaN or not a number) fails with an error and leaves the stored location
\* and place unchanged.
C11_InvalidManualRejected ==
    [][\A i \in Calls :
          (calls[i].kind = "manual" /\ Completes(i)
             /\ ~isValidCoordinates(calls[i].lat, calls[i].lon))
          => /\ location' = location
             /\ locationName' = locationName
             /\ error' # Null]_vars

\* C12: setManualLocation called with a valid coordinate c sets, in the call
\* itself and before reverse geocoding has completed, the location to c with
\* accuracy null, and starts reverse geocoding of c.
C12_ManualLocationSetAtOnce ==
    [][ManualCalled =>
          LET c == calls'[Len(calls')]
          IN isValidCoordinates(c.lat, c.lon)
                => /\ location' = Location(c.lat, c.lon, NullAccuracy)
                   /\ c.pc \in {"geoDelay", "geoWait"}]_vars

-----------------------------------------------------------------------------
(* Overlapping acquisitions *)

\* C19: when a later getCurrentLocation invocation was made while an earlier
\* one was still in flight, the result of the earlier one is discarded: once
\* the later one has completed, the completion of the earlier one changes
\* neither the stored location, nor the place, nor the error.
C19_StaleResultDiscarded ==
    [][\A i \in Calls :
          (calls[i].kind = "gps" /\ Completes(i)
             /\ last.id > i /\ last.call.kind = "gps" /\ calls[last.id].pc = "done")
          => /\ location' = location
             /\ locationName' = locationName
             /\ error' = error]_vars

\* C20: within one getCurrentLocationWithName call that has made the
\* supplementary request, nothing is passed on while that request is out: no
\* fix is chosen and no provider request is made before it has called back;
\* then exactly one fix is chosen, the supplementary or the original one,
\* reverse geocoding is made for that fix, and the call resolves with it.
C20_OneResultAfterSupplementary ==
    /\ \A i \in Calls :
          LET c == calls[i]
          IN /\ c.nsup <= 1
             /\ c.pc = "supWait"
                   => /\ c.nsup = 1 /\ c.ngeo = 0
                      /\ c.sup = NoPosition
                      /\ c.lat = Undefined /\ c.lon = Undefined
             /\ (c.nsup = 1 /\ c.pc \in {"geoDelay", "geoWait", "geoRetryTimer"})
                   => /\ c.ngeo = 0 /\ c.pc = "geoDelay" => c.sup # NoPosition
                      /\ AsReading(c) = c.orig
                            \/ (c.sup.code = "OK" /\ AsReading(c) = c.sup.coords)
                            \/ c.ngeo > 0
                      /\ c.ngeo <= 1
             /\ c.nsup = 1 => c.pc \in {"supWait", "geoDelay", "geoWait"}
    /\ (AcquisitionCompleted /\ last.call.nsup > 0)
          => /\ last.call.nsup = 1
             /\ last.status = "resolved"
             /\ last.call.ngeo = 1
             /\ location = Location(last.call.lat, last.call.lon,
                                    Metres(last.call.acc))

\* the supplementary request failed and the call resolved with the original
\* fix after one provider request
C20_Witness ==
    /\ AcquisitionCompleted
    /\ last.status = "resolved"
    /\ last.call.nsup = 1
    /\ last.call.ngeo = 1
    /\ AsReading(last.call) = last.call.orig
    /\ location = Location(last.call.orig.latitude, last.call.orig.longitude,
                           Metres(last.call.orig.accuracy))

-----------------------------------------------------------------------------
(* Search *)

\* last describes a searchLocations call that returned a list
SearchReturned == lastSearch # NoSearchCompleted /\ ~lastSearch.out.threw

RECURSIVE Words(_)
\* the words of a query: its maximal runs of characters other than the space
Words(q) ==
    IF q = "" THEN <<>>
    ELSE IF Char(q, 1) = " " THEN Words(SubSeq(q, 2, Len(q)))
    ELSE LET end == IF \E i \in 1..Len(q) : Char(q, i) = " "
                    THEN (CHOOSE i \in 1..Len(q) :
                             Char(q, i) = " " /\ \A h \in 1..(i - 1) : Char(q, h) # " ") - 1
                    ELSE Len(q)
         IN <<SubSeq(q, 1, end)>> \o Words(SubSeq(q, end + 1, Len(q)))

DistanceBonus(distance) ==
    IF distance.null THEN 0
    ELSE IF distance.m < 1000 THEN 3000
    ELSE IF distance.m < 5000 THEN 2000
    ELSE IF distance.m < 20000 THEN 1000
    ELSE 500

TypeBonus(type) ==
    CASE type \in {"house", "building"} -> 1500
      [] type = "street" -> 1200
      [] type = "city" -> 800
      [] type = "state" -> 500
      [] OTHER -> 0

\* the score of candidate c for query q as the sum of its five parts, in
\* hundredths
ExpectedScore(c, q) ==
    LET name == toLowerCase(c.name)
        words == Words(toLowerCase(q))
    IN c.importance * 10
       + (IF Includes(name, toLowerCase(q)) THEN 5000 ELSE 0)
       + 1000 * Cardinality({i \in DOMAIN words : Includes(name, words[i])})
       + DistanceBonus(c.distance)
       + TypeBonus(c.type)

\* C13: the relevanceScore of every candidate is importance*10 + 50 when the
\* display name contains the whole query without regard to case + 10 for
\* each word of the query that is a substring of the display name + the
\* distance bonus + the place-type bonus.
C13_RelevanceScore ==
    SearchReturned =>
       \A i \in DOMAIN lastSearch.out.sorted :
          lastSearch.out.sorted[i].relevanceScore
             = ExpectedScore(lastSearch.out.sorted[i], lastSearch.search.q)

\* the candidates of the list returned at places i < j have known distances
KnownPair(i, j) ==
    /\ i < j
    /\ ~lastSearch.out.results[i].distance.null
    /\ ~lastSearch.out.results[j].distance.null

TieZone(i, j) ==
    Abs(lastSearch.out.results[i].distance.m - lastSearch.out.results[j].distance.m)
       < 1000

\* C14: in the list returned, of two candidates with known distances less
\* than 1 km apart the one with the higher relevanceScore comes first.
C14_TieZoneByRelevance ==
    SearchReturned =>
       \A i, j \in DOMAIN lastSearch.out.results :
          (KnownPair(i, j) /\ TieZone(i, j))
             => lastSearch.out.results[i].relevanceScore
                   >= lastSearch.out.results[j].relevanceScore

\* C15: in the list returned, of two candidates with known distances 1 km or
\* more apart the nearer one comes first, whatever their scores.
C15_NearerFirst ==
    SearchReturned =>
       \A i, j \in DOMAIN lastSearch.out.results :
          (KnownPair(i, j) /\ ~TieZone(i, j))
             => lastSearch.out.results[i].distance.m
                   < lastSearch.out.results[j].distance.m

\* C16: the list returned has min(8, n) candidates for n provider results,
\* never more than 8, and they are the first ones of the sorted list.
C16_AtMostEightResults ==
    SearchReturned =>
       LET n == Len(lastSearch.resp.data)
           results == lastSearch.out.results
       IN /\ Len(results) <= 8
          /\ Len(results) = IF n < 8 THEN n ELSE 8
          /\ Len(lastSearch.out.sorted) = n
          /\ \A i \in DOMAIN results : results[i] = lastSearch.out.sorted[i]

\* ten provider results were cut to the first eight of the sorted list
C16_Witness ==
    /\ SearchReturned
    /\ Len(lastSearch.resp.data) = 10
    /\ Len(lastSearch.out.sorted) = 10
    /\ Len(lastSearch.out.results) = 8
    /\ lastSearch.out.results = SubSeq(lastSearch.out.sorted, 1, 8)

\* C17: whenever a valid bias is supplied, latitude 0 or longitude 0
\* included, the request has the bounding box of 0.1 degree around the bias
\* and the bounded flag; without a bias it has no bounding box.
C17_BiasBoundsRequest ==
    lastSearch # NoSearchCompleted =>
       LET bias == lastSearch.search.bias
           request == lastSearch.search.request
       IN IF bias # Null /\ isValidCoordinates(bias.latitude, bias.longitude)
          THEN /\ request.bounded
               /\ request.viewbox.present
               /\ request.viewbox.left = bias.longitude.v - 100000
               /\ request.viewbox.right = bias.longitude.v + 100000
               /\ request.viewbox.bottom = bias.latitude.v - 100000
               /\ request.viewbox.top = bias.latitude.v + 100000
          ELSE ~request.bounded /\ ~request.viewbox.present

\* the provider failed to answer a search: network failure or a status that
\* is not 2xx
SearchProviderFailed(resp) == resp.kind = "netfail" \/ ~ResponseOk(resp)

\* C18: when the provider fails, searchLocations rejects with an error and
\* returns no list; LocationSearch then has an empty, closed suggestion list
\* and its loading flag is false.
C18_SearchFailureClearsList ==
    [][(lastSearch' # lastSearch /\ SearchProviderFailed(lastSearch'.resp))
          => /\ lastSearch'.out.threw
             /\ lastSearch'.out.message # ""
             /\ lastSearch'.out.results = <<>>
             /\ suggestions' = <<>>
             /\ ~showSuggestions'
             /\ ~searchLoading']_vars

\* the second search failed on the network and the list is empty and closed
C18_Witness ==
    /\ lastSearch.id = 2
    /\ lastSearch.resp.kind = "netfail"
    /\ lastSearch.out.threw
    /\ suggestions = <<>>
    /\ ~showSuggestions
    /\ ~searchLoading

\* C21: every candidate has the haversine distance to the bias when a valid
\* bias is given, latitude 0 or longitude 0 included, and null when no bias
\* is given; within one call either every candidate has a distance or none.
C21_DistanceToBias ==
    SearchReturned =>
       LET bias == lastSearch.search.bias
           sorted == lastSearch.out.sorted
       IN /\ \A i \in DOMAIN sorted :
                IF bias # Null /\ isValidCoordinates(bias.latitude, bias.longitude)
                THEN /\ ~sorted[i].distance.null
                     /\ sorted[i].distance.m
                           = calculateDistance(bias.latitude, bias.longitude,
                                               sorted[i].coordinates.latitude,
                                               sorted[i].coordinates.longitude).v
                ELSE sorted[i].distance.null
          /\ \A i, j \in DOMAIN sorted :
                sorted[i].distance.null = sorted[j].distance.null

-----------------------------------------------------------------------------
(* Place names *)

RECURSIVE CommaList(_)
CommaList(parts) ==
    IF parts = <<>> THEN ""
    ELSE IF Len(parts) = 1 THEN Head(parts)
    ELSE Head(parts) \o ", " \o CommaList(Tail(parts))

\* the parts of a readable name in their order, the absent ones left out
ExpectedParts(a) ==
    LET street == IF a.house_number # "" /\ a.road # ""
                  THEN a.house_number \o " " \o a.road ELSE a.road
        district == IF a.suburb # "" THEN a.suburb ELSE a.neighbourhood
        locality == IF a.city # "" THEN a.city
                    ELSE IF a.town # "" THEN a.town ELSE a.village
    IN SelectSeq(<<street, district, locality, a.state, a.country>>,
                 LAMBDA part : part # "")

\* C22: the readable name is made of house number and road (or the road
\* alone), the suburb or else the neighbourhood, the city or else the town
\* or else the village, the state and the country, in this order, the
\* absent ones left out, joined with ', '; when there is no part it is the
\* display name of the provider (or 'Unknown Location' without one).
C22_ReadableNameOrder ==
    (last.status = "resolved" /\ last.call.kind = "geocode")
       => LET parts == ExpectedParts(last.resp.address)
          IN /\ ~last.out.threw
             /\ last.out.place.name =
                   IF parts # <<>> THEN CommaList(parts)
                   ELSE IF last.resp.display_name # "" THEN last.resp.display_name
                   ELSE "Unknown Location"

\* house number and road, a neighbourhood without suburb, a village
\* without city or town and a state without country made the name
C22_Witness ==
    /\ last.status = "resolved"
    /\ last.call.kind = "geocode"
    /\ last.resp.address.house_number = "10"
    /\ last.resp.address.suburb = ""
    /\ last.resp.address.city = ""
    /\ last.resp.address.country = ""
    /\ last.out.place.name = "10 Main St, Old Town, Ogdenville, Illinois"

\* a step of LocationSearch that issues a search
IssuesSearch == Len(searches') > Len(searches)

\* C23: a search is issued only when the debounce timer fires for the query
\* the input still holds, whose trimmed text is longer than two characters
\* and is what is searched; a change of the query leaves the timer of the
\* new query as the only pending one, so one quiet period issues one search
C23_DebouncedSearch ==
    [][/\ timer' \subseteq {query'}
       /\ IssuesSearch =>
             /\ timer = {query}
             /\ timer' = {}
             /\ query' = query
             /\ Len(Trim(query)) > 2
             /\ searches' = Append(searches, NewSearch(Trim(query), currentLocation))]_vars

\* the second search was issued for the retyped query, trimmed, and no
\* timer is left
C23_Witness ==
    /\ Len(searches) = 2
    /\ searches[2].pc = "fetch"
    /\ query = "Main St "
    /\ searches[2].q = "Main St"
    /\ timer = {}

-----------------------------------------------------------------------------
(* Distances *)

-----------------------------------------------------------------------------
(* Acquisition *)

\* processLocation of invocation i is at work on the coordinates it was
\* given
Geocoding(i) == calls[i].pc \in {"geoDelay", "geoWait", "geoRetryTimer"}

\* C25: the coordinates an acquisition hands to reverse geocoding, and the
\* location stored when it has resolved, pass isValidCoordinates
C25_AcquiredCoordinatesValid ==
    /\ \A i \in Acquiring :
          Geocoding(i) => isValidCoordinates(calls[i].lat, calls[i].lon)
    /\ (last.status = "resolved" /\ last.call.kind = "gps") =>
          isValidCoordinates(location.latitude, location.longitude)

\* setManualLocation was the last invocation made and it has completed with
\* its location stored
ManualLocationStands ==
    /\ last.call.kind = "manual"
    /\ last.status = "resolved"
    /\ last.id = Len(calls)

\* C26: after setManualLocation has completed, the location is not changed
\* by any step before the next getCurrentLocation or setManualLocation call,
\* in particular not by an acquisition that was started earlier
C26_ManualLocationStays ==
    [][(ManualLocationStands /\ Len(calls') = Len(calls)) =>
          location' = location]_vars

\* a step in which an acquisition ends in failure
AcquisitionFails ==
    /\ last' # last
    /\ last'.call.kind = "gps"
    /\ last'.status = "rejected"

\* C27: the step in which an acquisition ends in failure leaves the stored
\* location and place name as they were; it sets the error and ends loading
C27_FailureKeepsLocation ==
    [][AcquisitionFails =>
          /\ location' = location
          /\ locationName' = locationName
          /\ error' = Err(last'.message)
          /\ ~loading']_vars

\* an acquisition has failed and the location stored before it is still
\* there
C27_Witness ==
    /\ last.call.kind = "gps"
    /\ last.status = "rejected"
    /\ last.id = 2
    /\ location # Null
    /\ locationName # Null
    /\ error # Null

-----------------------------------------------------------------------------
(* Stale searches *)

\* a step in which the provider's answer to a search arrives after a later
\* search was issued or after the query was shortened to 2 characters or
\* fewer
StaleResponse ==
    /\ lastSearch' # lastSearch
    /\ \/ lastSearch'.id < Len(searches)
       \/ Len(Trim(query)) <= 2

\* C28: the answer to a search that is no longer the current one neither
\* replaces the suggestions nor reopens the list
C28_StaleResponseDiscarded ==
    [][StaleResponse =>
          /\ suggestions' = suggestions
          /\ showSuggestions' = showSuggestions]_vars

-----------------------------------------------------------------------------
(* Order of the provider *)

\* two answers of the provider list the same items
SameItems(d1, d2) ==
    /\ Len(d1) = Len(d2)
    /\ \A i \in DOMAIN d1 :
          Cardinality({h \in DOMAIN d1 : d1[h] = d1[i]})
             = Cardinality({h \in DOMAIN d2 : d2[h] = d1[i]})

\* no two candidates have both the same distance and the same score
DistinctKeys(candidates) ==
    \A i, j \in DOMAIN candidates :
       i # j => \/ candidates[i].distance # candidates[j].distance
                \/ candidates[i].relevanceScore # candidates[j].relevanceScore

\* C29: for the same query and bias, the list returned is the same for
\* every order in which the provider lists the same items, when no two
\* candidates have both the same distance and the same relevanceScore
C29_OrderOfProviderIrrelevant ==
    (SearchReturned /\ DistinctKeys(lastSearch.out.sorted)) =>
       \A d \in DataLists :
          SameItems(d, lastSearch.resp.data) =>
             SearchOutcome(lastSearch.search.q, lastSearch.search.bias,
                           SearchHttp(200, "array", d), sortEngine).results
                = lastSearch.out.results

-----------------------------------------------------------------------------
(* Termination *)

\* getCurrentLocationWithName of invocation i has not settled
Unsettled(i) == i \in DOMAIN calls /\ calls[i].kind = "gps" /\ calls[i].pc # "done"

\* the hook has run the continuation of invocation i, for good
Settled(i) == i \in DOMAIN calls /\ calls[i].pc = "done"

\* C30: when the platform and the provider complete every request, every
\* getCurrentLocationWithName call settles and the hook's continuation runs,
\* after which the invocation does nothing more, and loading becomes false
C30_AcquisitionSettles ==
    /\ \A i \in 1..MaxCalls : Unsettled(i) ~> Settled(i)
    /\ [][\A i \in 1..MaxCalls : Settled(i) => Settled(i)']_vars
    /\ loading ~> ~loading

\* an acquisition that was retried twice after timeouts has been rejected,
\* and loading is false
C30_Witness ==
    /\ last.id = 1
    /\ last.call.kind = "gps"
    /\ last.call.svcRetry = 2
    /\ last.status = "rejected"
    /\ Settled(1)
    /\ ~loading

=============================================================================
